---------------------------- MODULE Spec2Model ----------------------------
(***************************************************************************)
(* Model of the RabbitMQ batching consumer of products-crud                *)
(* (internal/consumer: Consumer.Start and Consumer.sendEmail).             *)
(*                                                                         *)
(* One action per case of the select in Consumer.Start; each action is a   *)
(* whole loop iteration.  The environment (broker, context owner, clock)   *)
(* is modelled by Deliver, CloseStream, Cancel and Tick.                   *)
(*                                                                         *)
(* Time is counted in ticks.  The timer holds the ticks left until it      *)
(* expires (timerLeft) and whether an expiry is waiting in its channel     *)
(* (timerC).  A loop iteration takes no model time, and the clock does     *)
(* not advance while an expiry is waiting to be read.                      *)
(***************************************************************************)
EXTENDS Integers, Sequences, FiniteSets, TLC

\* ------------------------------------------------------------------ bounds
\* Number of deliveries the broker hands to the consumer in one run.
MaxDeliveries == 3

\* const batchSize = 100 in the source, scaled down.
batchSize == 3

\* const batchTimeout = 5 * time.Second in the source, in ticks, scaled down.
batchTimeout == 2

\* Largest SKU of the products table in the model.
MaxSKU == 2

\* Largest number of items in the body of one product request.
MaxItems == 2
MaxRequests == 2

\* ------------------------------------------------------------ data model
Tags == 1..MaxDeliveries

NoEmail == ""

\* A payload is either not JSON at all, or a JSON object carrying some of
\* the keys of ProductEvent (keys says which; the value of an absent key
\* is not part of the payload and is written as a fixed filler).
Payload(valid, keys, sku, email) ==
    [valid |-> valid, keys |-> keys,
     sku |-> IF "sku" \in keys THEN sku ELSE 0,
     email |-> IF "responsible_email" \in keys THEN email ELSE NoEmail]
Malformed == Payload(FALSE, {}, 0, NoEmail)
\* The payloads the broker delivers in the model: one that is not JSON, one
\* complete event, and one event without the responsible_email key.
Bodies ==
    { Malformed,
      Payload(TRUE, {"sku", "responsible_email"}, 1, "a@x"),
      Payload(TRUE, {"sku"}, 2, NoEmail) }

\* type ProductEvent struct, restricted to the fields the loop reads.
ProductEvent(sku, email) == [SKU |-> sku, ResponsibleEmail |-> email]

\* Variant: an object that lacks a key of ProductEvent is reported as an
\* error.
UnmarshalStrict(body) ==
    IF ~body.valid \/ body.keys # {"sku", "responsible_email"}
    THEN [err |-> TRUE, event |-> ProductEvent(0, NoEmail)]
    ELSE [err |-> FALSE, event |-> ProductEvent(body.sku, body.email)]

\* json.Unmarshal(msg.Body, &event): a syntax error is reported; a key that
\* is absent from the object leaves the zero value in the struct field.
Unmarshal(body) ==
    IF ~body.valid
    THEN [err |-> TRUE, event |-> ProductEvent(0, NoEmail)]
    ELSE [err |-> FALSE,
          event |-> ProductEvent(
              IF "sku" \in body.keys THEN body.sku ELSE 0,
              IF "responsible_email" \in body.keys
              THEN body.email ELSE NoEmail)]

\* type batchItem struct
batchItem(event, msg) == [event |-> event, msg |-> msg]

VARIABLES
    pc,           \* "select" while Start runs its loop, "returned" after
    ret,          \* value returned by Start
    batch,        \* var batch []batchItem
    msgs,         \* the delivery channel returned by Consume
    msgsClosed,   \* the delivery channel has been closed by the broker
    ctxDone,      \* ctx.Done() is closed
    timerLeft,    \* ticks until batchTimer expires
    timerC,       \* an expiry is waiting in batchTimer.C
    drainOnReset, \* the build's Timer.Reset discards a waiting expiry
    age,          \* ticks since the first item of batch was appended
    nextTag,      \* delivery tag of the next delivery
    delivered,    \* history: payload of every delivery, by tag
    appended,     \* history: tags of the deliveries appended to a batch
    acked,        \* history: number of Ack calls, by tag
    nacked,       \* history: number of Nack(false, true) calls, by tag
    sent,         \* history: the calls of sendEmail
    flushes,      \* history: the batches that were resolved
    connDown,     \* the AMQP connection is lost or was closed by Close
    ackErrs,      \* history: tags whose Ack or Nack call returned an error
    mainAt,       \* main: "serving", "closed" after Close, then "exited"
    store,        \* the products table: Name by SKU, NoRow without a row
    users,        \* the users table as First reads it: Password by Email
    userRows,     \* the rows of the users table, in the order of their ID
    reg,          \* the POST /register requests in flight, by goroutine
    last          \* the last request served by a handler, with its trace

vars == <<pc, ret, batch, msgs, msgsClosed, ctxDone, timerLeft, timerC,
          drainOnReset, age, nextTag, delivered, appended, acked, nacked,
          sent, flushes, connDown, ackErrs, mainAt, store, users, userRows,
          reg, last>>

\* The variables of the consumer and those of the HTTP API.
consumerVars == <<pc, ret, batch, msgs, msgsClosed, ctxDone, timerLeft,
                  timerC, drainOnReset, age, nextTag, delivered, appended,
                  acked, nacked, sent, flushes, connDown, ackErrs, mainAt>>
apiVars == <<store, users, userRows, reg, last>>

\* ---------------------------------------------------------- API data model
SKUs == 1..MaxSKU

\* A column value standing for "no row with this key".
NoRow == "<no row>"

Names == {"Produto A", "Produto B"}

Emails == {"amanda@test.com", "test@test.com"}

Passwords == {"123456", "1234"}

\* A goroutine of the HTTP server that serves POST /register: where it
\* is in UserRepository.Create, what it was asked and what it answered.
Registration(at, email, password, err) ==
    [at |-> at, email |-> email, password |-> password, err |-> err]

Idle == Registration("idle", "", "", "")

Goroutines == 1..MaxRequests

\* model.Product, reduced to its key and one other column.
Product(sku, name) == [SKU |-> sku, Name |-> name]

\* A Go map[int]string is a function on the set of its keys; the nil map
\* and the empty map read alike (no key exists, len is 0).
NilMap == <<>>

Put(m, k, v) == [x \in DOMAIN m \cup {k} |-> IF x = k THEN v ELSE m[x]]

\* fmt.Sprintf of a message about one SKU.
Sprintf(format, sku) == [format |-> format, sku |-> sku]

\* A request served: the operation, its input, what the database, the
\* context and the broker did during it, the table it found and its
\* outcome.
Served(op, input, env, before, resp) ==
    [op |-> op, input |-> input, env |-> env, before |-> before,
     resp |-> resp]

\* No request is being served.
NoCall == Served("", <<>>, <<>>, <<>>, <<>>)

\* What happens around a product request.
Env(fault, cancelAt, pubFail) ==
    [fault |-> fault, cancelAt |-> cancelAt, pubFail |-> pubFail]


\* ---------------------------------------------------------------- timer
\* time.NewTimer(batchTimeout)
NewTimer == [left |-> batchTimeout, c |-> FALSE]

\* batchTimer.Reset(batchTimeout).  The loop never drains batchTimer.C
\* before Reset: whether an expiry that is already waiting in the channel
\* survives the Reset depends on the Go release the program is built with.
Reset(tm, drain) ==
    [left |-> batchTimeout, c |-> IF drain THEN FALSE ELSE tm.c]

\* ------------------------------------------------------------- sendEmail
\* Consumer.sendEmail: nil for an empty slice, otherwise the outcome of the
\* configuration load and of the SMTP exchange (smtpErr).
sendEmail(events, smtpErr) ==
    IF Len(events) = 0 THEN FALSE ELSE smtpErr

\* Variant: the copy loop fills the slice from the back.
EventsOfReversed(b) == [i \in 1..Len(b) |-> b[Len(b) + 1 - i].event]

\* events := make([]ProductEvent, len(batch)); events[i] = item.event
EventsOf(b) == [i \in 1..Len(b) |-> b[i].event]

\* for _, item := range batch { item.msg... }: the deliveries of a batch.
MsgsOf(b) == [i \in 1..Len(b) |-> b[i].msg]

\* What one resolution block of Start does: the sendEmail calls it makes,
\* the batch items it Nacks and the batch items it Acks.
Outcome(call, err, nack, ack) ==
    [call |-> call, err |-> err, nack |-> MsgsOf(nack), ack |-> MsgsOf(ack)]

NoOutcome == Outcome(<<>>, FALSE, <<>>, <<>>)

\* Variant: the len(batch) > 0 test is missing.
CtxFlushUnguarded(b, smtpErr) ==
    LET events == EventsOf(b)
        err == sendEmail(events, smtpErr)
    IN  IF err
        THEN Outcome(<<events>>, TRUE, b, <<>>)
        ELSE Outcome(<<events>>, FALSE, <<>>, b)

\* case <-ctx.Done(): the pending batch is sent, then requeued or acked.
CtxFlush(b, smtpErr) ==
    IF Len(b) > 0
    THEN LET events == EventsOf(b)
             err == sendEmail(events, smtpErr)
         IN  IF err
             THEN Outcome(<<events>>, TRUE, b, <<>>)
             ELSE Outcome(<<events>>, FALSE, <<>>, b)
    ELSE NoOutcome

\* Variant: the result of sendEmail is not tested, the batch is acked.
ClosedFlushIgnoresErr(b, smtpErr) ==
    IF Len(b) > 0
    THEN LET events == EventsOf(b)
             err == sendEmail(events, smtpErr)
         IN  Outcome(<<events>>, err, <<>>, b)
    ELSE NoOutcome

\* case msg, ok := <-msgs with !ok: same block as for cancellation.
ClosedFlush(b, smtpErr) ==
    IF Len(b) > 0
    THEN LET events == EventsOf(b)
             err == sendEmail(events, smtpErr)
         IN  IF err
             THEN Outcome(<<events>>, TRUE, b, <<>>)
             ELSE Outcome(<<events>>, FALSE, <<>>, b)
    ELSE NoOutcome

\* Variant: the continue after the Nack loop is missing, so the Ack loop
\* runs as well.
SizeFlushNoContinue(b, smtpErr) ==
    LET events == EventsOf(b)
    IN  IF events[1].ResponsibleEmail # NoEmail
        THEN IF sendEmail(events, smtpErr)
             THEN Outcome(<<events>>, TRUE, b, b)
             ELSE Outcome(<<events>>, FALSE, <<>>, b)
        ELSE Outcome(<<>>, FALSE, <<>>, b)

\* if len(batch) >= batchSize { ... }: the batch is sent only when its
\* first event names a ResponsibleEmail; a failed send requeues the batch
\* and leaves the iteration, every other path acknowledges the batch.
SizeFlush(b, smtpErr) ==
    LET events == EventsOf(b)
    IN  IF events[1].ResponsibleEmail # NoEmail
        THEN IF sendEmail(events, smtpErr)
             THEN Outcome(<<events>>, TRUE, b, <<>>)
             ELSE Outcome(<<events>>, FALSE, <<>>, b)
        ELSE Outcome(<<>>, FALSE, <<>>, b)

\* Variant: a failed send requeues only the first item of the batch.
TimerFlushNacksFirst(b, smtpErr) ==
    LET events == EventsOf(b)
    IN  IF events[1].ResponsibleEmail # NoEmail
        THEN IF sendEmail(events, smtpErr)
             THEN Outcome(<<events>>, TRUE, <<b[1]>>, <<>>)
             ELSE Outcome(<<events>>, FALSE, <<>>, b)
        ELSE Outcome(<<>>, FALSE, <<>>, b)

\* case <-batchTimer.C with len(batch) > 0: as the size flush.
TimerFlush(b, smtpErr) ==
    LET events == EventsOf(b)
    IN  IF events[1].ResponsibleEmail # NoEmail
        THEN IF sendEmail(events, smtpErr)
             THEN Outcome(<<events>>, TRUE, b, <<>>)
             ELSE Outcome(<<events>>, FALSE, <<>>, b)
        ELSE Outcome(<<>>, FALSE, <<>>, b)

\* ------------------------------------------------------- loop iterations
\* The effect of one iteration on the loop's locals: the batch and timer it
\* leaves, the batch it resolved (if any) and how, and whether Start
\* returns.
Iteration(b, tm, resolved, out, status) ==
    [batch |-> b, timer |-> tm, resolved |-> resolved, out |-> out,
     ret |-> status]

\* The value of a nil error.
NilError == "nil"

\* The consumer goroutine of main: if err := consumer.Start(ctx); err != nil
\* logs "Consumer stopped with error".
ConsumerStoppedWithError(status) == status # NilError

\* Variant: the cancellation case returns the error of the closed-channel
\* case.
HandleCtxDoneReturnsClosed(b, tm, smtpErr) ==
    Iteration(b, tm, b, CtxFlush(b, smtpErr), "message channel closed")

\* Variant: Start returns on cancellation without looking at the batch.
HandleCtxDoneDropsBatch(b, tm, smtpErr) ==
    Iteration(b, tm, <<>>, NoOutcome, "ctx.Err")

\* case <-ctx.Done()
HandleCtxDone(b, tm, smtpErr) ==
    Iteration(b, tm, b, CtxFlush(b, smtpErr), "ctx.Err")

\* Variant: Start returns on a closed channel without looking at the batch.
HandleClosedDropsBatch(b, tm, smtpErr) ==
    Iteration(b, tm, <<>>, NoOutcome, "message channel closed")

\* case msg, ok := <-msgs, !ok
HandleClosed(b, tm, smtpErr) ==
    Iteration(b, tm, b, ClosedFlush(b, smtpErr), "message channel closed")

\* Variant: the continue after the Nack of an undecodable payload is
\* missing, so the zero event is appended.
HandleDeliveryAppendsUndecoded(b, tm, msg, smtpErr, drain) ==
    LET u == Unmarshal(msg.Body)
        bad == IF u.err THEN <<msg>> ELSE <<>>
        b1 == Append(b, batchItem(u.event, msg))
    IN  IF Len(b1) >= batchSize
        THEN LET out == SizeFlush(b1, smtpErr)
             IN  Iteration(<<>>, Reset(tm, drain), b1,
                           [out EXCEPT !.nack = bad \o out.nack], "")
        ELSE Iteration(b1, tm, <<>>, [NoOutcome EXCEPT !.nack = bad], "")

\* Variant: the first item of a batch restarts the timer.
HandleDeliveryRestartsTimer(b, tm, msg, smtpErr, drain) ==
    LET u == Unmarshal(msg.Body)
    IN  IF u.err
        THEN Iteration(b, tm, <<>>,
                       [NoOutcome EXCEPT !.nack = <<msg>>], "")
        ELSE LET b1 == Append(b, batchItem(u.event, msg))
             IN  IF Len(b1) >= batchSize
                 THEN Iteration(<<>>, Reset(tm, drain), b1,
                                SizeFlush(b1, smtpErr), "")
                 ELSE Iteration(b1,
                                IF Len(b) = 0 THEN Reset(tm, drain) ELSE tm,
                                <<>>, NoOutcome, "")

\* Variant: the capacity test is len(batch) > batchSize.
HandleDeliveryOffByOne(b, tm, msg, smtpErr, drain) ==
    LET u == Unmarshal(msg.Body)
    IN  IF u.err
        THEN Iteration(b, tm, <<>>,
                       [NoOutcome EXCEPT !.nack = <<msg>>], "")
        ELSE LET b1 == Append(b, batchItem(u.event, msg))
             IN  IF Len(b1) > batchSize
                 THEN Iteration(<<>>, Reset(tm, drain), b1,
                                SizeFlush(b1, smtpErr), "")
                 ELSE Iteration(b1, tm, <<>>, NoOutcome, "")

\* case msg, ok := <-msgs, ok
HandleDelivery(b, tm, msg, smtpErr, drain) ==
    LET u == Unmarshal(msg.Body)
    IN  IF u.err
        THEN Iteration(b, tm, <<>>,
                       [NoOutcome EXCEPT !.nack = <<msg>>], "")
        ELSE LET b1 == Append(b, batchItem(u.event, msg))
             IN  IF Len(b1) >= batchSize
                 THEN Iteration(<<>>, Reset(tm, drain), b1,
                                SizeFlush(b1, smtpErr), "")
                 ELSE Iteration(b1, tm, <<>>, NoOutcome, "")

\* Variant: the timer is restarted only after a flush.
HandleTimerNoRestartWhenEmpty(b, tm, smtpErr, drain) ==
    LET read == [tm EXCEPT !.c = FALSE]
    IN  IF Len(b) > 0
        THEN Iteration(<<>>, Reset(read, drain), b,
                       TimerFlush(b, smtpErr), "")
        ELSE Iteration(b, read, <<>>, NoOutcome, "")

\* Variant: batch = nil is missing after the Ack loop of the timer case.
HandleTimerKeepsBatch(b, tm, smtpErr, drain) ==
    LET read == [tm EXCEPT !.c = FALSE]
    IN  IF Len(b) > 0
        THEN LET out == TimerFlush(b, smtpErr)
             IN  Iteration(IF out.err THEN <<>> ELSE b, Reset(read, drain),
                           b, out, "")
        ELSE Iteration(b, Reset(read, drain), <<>>, NoOutcome, "")

\* case <-batchTimer.C
HandleTimer(b, tm, smtpErr, drain) ==
    LET read == [tm EXCEPT !.c = FALSE]
    IN  IF Len(b) > 0
        THEN Iteration(<<>>, Reset(read, drain), b,
                       TimerFlush(b, smtpErr), "")
        ELSE Iteration(b, Reset(read, drain), <<>>, NoOutcome, "")

\* ------------------------------------------------------------ the system
Init ==
    /\ pc = "select"
    /\ ret = ""
    /\ batch = <<>>
    /\ msgs = <<>>
    /\ msgsClosed = FALSE
    /\ ctxDone = FALSE
    /\ timerLeft = NewTimer.left
    /\ timerC = NewTimer.c
    /\ drainOnReset \in BOOLEAN
    /\ age = 0
    /\ nextTag = 1
    /\ delivered = <<>>
    /\ appended = {}
    /\ acked = [t \in Tags |-> 0]
    /\ nacked = [t \in Tags |-> 0]
    /\ sent = <<>>
    /\ flushes = <<>>
    /\ connDown = FALSE
    /\ ackErrs = {}
    /\ mainAt = "serving"
    /\ store = [sku \in SKUs |-> NoRow]
    /\ users = [email \in Emails |-> NoRow]
    /\ userRows = <<>>
    /\ reg = [q \in Goroutines |-> Idle]
    /\ last = NoCall

TagsOf(ms) == {ms[i].tag : i \in 1..Len(ms)}

Count(ms, t) == Cardinality({i \in 1..Len(ms) : ms[i].tag = t})

\* Delivery.Ack and Delivery.Nack return an error when the channel of the
\* delivery is no longer open: the calls of one resolution that fail.
AckFailures(out, down) ==
    IF down THEN TagsOf(out.ack) \cup TagsOf(out.nack) ELSE {}

\* item.msg.Ack(false) and item.msg.Nack(false, true) are expression
\* statements: the error they return is dropped, it is neither logged nor
\* part of what Start returns. The failures the consumer reports.
Reported(failed) == {}

\* The state after one iteration of the loop, with its trace in the
\* history variables.
Commit(it, trigger) ==
    /\ pc' = IF it.ret = "" THEN "select" ELSE "returned"
    /\ ret' = it.ret
    /\ batch' = it.batch
    /\ timerLeft' = it.timer.left
    /\ timerC' = it.timer.c
    /\ age' = IF it.batch = <<>> \/ batch = <<>> THEN 0 ELSE age
    /\ appended' = appended \cup TagsOf(MsgsOf(it.batch))
                            \cup TagsOf(MsgsOf(it.resolved))
    /\ acked' = [t \in Tags |-> acked[t] + Count(it.out.ack, t)]
    /\ nacked' = [t \in Tags |-> nacked[t] + Count(it.out.nack, t)]
    /\ ackErrs' = ackErrs \cup AckFailures(it.out, connDown)
    /\ sent' = sent \o [i \in 1..Len(it.out.call) |->
                          [events |-> it.out.call[i], err |-> it.out.err]]
    /\ flushes' =
         IF it.resolved = <<>> THEN flushes
         ELSE Append(flushes,
                [trigger |-> trigger,
                 tags |-> [i \in 1..Len(it.resolved) |-> it.resolved[i].msg.tag],
                 firstEmail |-> it.resolved[1].event.ResponsibleEmail,
                 calls |-> Len(it.out.call),
                 call |-> IF it.out.call = <<>> THEN 0 ELSE Len(sent'),
                 err |-> it.out.err,
                 age |-> IF batch = <<>> THEN 0 ELSE age])

\* The broker puts the next delivery on the channel.
Deliver(body) ==
    /\ pc = "select"
    /\ ~msgsClosed
    /\ msgs = <<>>
    /\ nextTag <= MaxDeliveries
    /\ msgs' = <<[tag |-> nextTag, Body |-> body]>>
    /\ nextTag' = nextTag + 1
    /\ delivered' = Append(delivered, body)
    /\ UNCHANGED <<pc, ret, batch, msgsClosed, ctxDone, timerLeft, timerC,
                   drainOnReset, age, appended, acked, nacked, sent, flushes>>
    /\ UNCHANGED <<connDown, ackErrs, mainAt>>
    /\ UNCHANGED apiVars

\* The broker closes the delivery channel.
CloseStream ==
    /\ pc = "select"
    /\ ~msgsClosed
    /\ msgsClosed' = TRUE
    /\ UNCHANGED <<pc, ret, batch, msgs, ctxDone, timerLeft, timerC,
                   drainOnReset, age, nextTag, delivered, appended, acked,
                   nacked, sent, flushes>>
    /\ UNCHANGED <<connDown, ackErrs, mainAt>>
    /\ UNCHANGED apiVars

\* main calls cancel().
Cancel ==
    /\ pc = "select"
    /\ ~ctxDone
    /\ ctxDone' = TRUE
    /\ UNCHANGED <<pc, ret, batch, msgs, msgsClosed, timerLeft, timerC,
                   drainOnReset, age, nextTag, delivered, appended, acked,
                   nacked, sent, flushes>>
    /\ UNCHANGED <<connDown, ackErrs, mainAt>>
    /\ UNCHANGED apiVars

\* One tick of the clock while the timer runs.
Tick ==
    /\ pc = "select"
    /\ ~timerC
    /\ timerLeft > 0
    /\ timerLeft' = timerLeft - 1
    /\ timerC' = (timerLeft' = 0)
    /\ age' = IF batch # <<>> /\ age <= batchTimeout THEN age + 1 ELSE age
    /\ UNCHANGED <<pc, ret, batch, msgs, msgsClosed, ctxDone, drainOnReset,
                   nextTag, delivered, appended, acked, nacked, sent,
                   flushes>>
    /\ UNCHANGED <<connDown, ackErrs, mainAt>>
    /\ UNCHANGED apiVars

Timer == [left |-> timerLeft, c |-> timerC]

CaseCtxDone ==
    /\ pc = "select"
    /\ ctxDone
    /\ \E smtpErr \in BOOLEAN :
         Commit(HandleCtxDone(batch, Timer, smtpErr), "ctx")
    /\ UNCHANGED <<msgs, msgsClosed, ctxDone, drainOnReset, nextTag,
                   delivered>>
    /\ UNCHANGED <<connDown, mainAt>>
    /\ UNCHANGED apiVars

\* Variant: the closed-channel case is not taken once ctx.Done() is closed.
CaseClosedUnlessCancelled ==
    /\ pc = "select"
    /\ ~ctxDone
    /\ msgs = <<>>
    /\ msgsClosed
    /\ \E smtpErr \in BOOLEAN :
         Commit(HandleClosed(batch, Timer, smtpErr), "closed")
    /\ UNCHANGED <<msgs, msgsClosed, ctxDone, drainOnReset, nextTag,
                   delivered>>
    /\ UNCHANGED <<connDown, mainAt>>
    /\ UNCHANGED apiVars

CaseClosed ==
    /\ pc = "select"
    /\ msgs = <<>>
    /\ msgsClosed
    /\ \E smtpErr \in BOOLEAN :
         Commit(HandleClosed(batch, Timer, smtpErr), "closed")
    /\ UNCHANGED <<msgs, msgsClosed, ctxDone, drainOnReset, nextTag,
                   delivered>>
    /\ UNCHANGED <<connDown, mainAt>>
    /\ UNCHANGED apiVars

\* Variant: the delivery case is not taken once ctx.Done() is closed.
CaseDeliveryUnlessCancelled ==
    /\ pc = "select"
    /\ ~ctxDone
    /\ msgs # <<>>
    /\ \E smtpErr \in BOOLEAN :
         Commit(HandleDelivery(batch, Timer, Head(msgs), smtpErr,
                               drainOnReset), "size")
    /\ msgs' = Tail(msgs)
    /\ UNCHANGED <<msgsClosed, ctxDone, drainOnReset, nextTag, delivered>>
    /\ UNCHANGED <<connDown, mainAt>>
    /\ UNCHANGED apiVars

CaseDelivery ==
    /\ pc = "select"
    /\ msgs # <<>>
    /\ \E smtpErr \in BOOLEAN :
         Commit(HandleDelivery(batch, Timer, Head(msgs), smtpErr,
                               drainOnReset), "size")
    /\ msgs' = Tail(msgs)
    /\ UNCHANGED <<msgsClosed, ctxDone, drainOnReset, nextTag, delivered>>
    /\ UNCHANGED <<connDown, mainAt>>
    /\ UNCHANGED apiVars

CaseTimer ==
    /\ pc = "select"
    /\ timerC
    /\ \E smtpErr \in BOOLEAN :
         Commit(HandleTimer(batch, Timer, smtpErr, drainOnReset), "timer")
    /\ UNCHANGED <<msgs, msgsClosed, ctxDone, drainOnReset, nextTag,
                   delivered>>
    /\ UNCHANGED <<connDown, mainAt>>
    /\ UNCHANGED apiVars

Next ==
    \/ \E body \in Bodies : Deliver(body)
    \/ CloseStream
    \/ Cancel
    \/ Tick
    \/ CaseCtxDone
    \/ CaseClosed
    \/ CaseDelivery
    \/ CaseTimer

Spec == Init /\ [][Next]_vars

\* The loop runs whenever one of its select cases is ready, and the clock
\* keeps running.
LoopStep == CaseCtxDone \/ CaseClosed \/ CaseDelivery \/ CaseTimer

FairSpec == Spec /\ WF_vars(LoopStep) /\ WF_vars(Tick)

\* ------------------------------------------------- the consumer's process
\* The connection to the broker breaks: the library closes the delivery
\* channel, and every later Ack or Nack returns an error.
ConnectionLost ==
    /\ pc = "select"
    /\ ~connDown
    /\ connDown' = TRUE
    /\ msgsClosed' = TRUE
    /\ UNCHANGED <<pc, ret, batch, msgs, ctxDone, timerLeft, timerC,
                   drainOnReset, age, nextTag, delivered, appended, acked,
                   nacked, sent, flushes, ackErrs, mainAt>>
    /\ UNCHANGED apiVars

\* main returns right after cancel(), without waiting for the goroutine
\* that runs Start: its deferred consumer.Close() closes the channel and
\* the connection.
MainClose ==
    /\ mainAt = "serving"
    /\ ctxDone
    /\ mainAt' = "closed"
    /\ connDown' = TRUE
    /\ msgsClosed' = TRUE
    /\ UNCHANGED <<pc, ret, batch, msgs, ctxDone, timerLeft, timerC,
                   drainOnReset, age, nextTag, delivered, appended, acked,
                   nacked, sent, flushes, ackErrs>>
    /\ UNCHANGED apiVars

\* main has returned: the process exits and takes the goroutine that runs
\* Start with it, wherever it is.
MainExit ==
    /\ mainAt = "closed"
    /\ mainAt' = "exited"
    /\ pc' = IF pc = "select" THEN "killed" ELSE pc
    /\ UNCHANGED <<ret, batch, msgs, msgsClosed, ctxDone, timerLeft, timerC,
                   drainOnReset, age, nextTag, delivered, appended, acked,
                   nacked, sent, flushes, connDown, ackErrs>>
    /\ UNCHANGED apiVars

ProcessNext ==
    \/ Next
    \/ ConnectionLost
    \/ MainClose
    \/ MainExit

\* The consumer as main runs it, with a connection that can break.
ProcessSpec == Init /\ [][ProcessNext]_vars

\* --------------------------------------------------- product repository
\* The database call that fails during a request, if any: the query
\* ("read") or the statement ("write") made for one SKU.
NoFault == [sku |-> 0, op |-> ""]

Faults == {NoFault} \cup [sku : SKUs, op : {"read", "write"}]

\* The Name column of the row with this SKU.
Row(st, sku) == IF sku \in DOMAIN st THEN st[sku] ELSE NoRow

\* ProductRepository.Create, first loop: a SKU that occurs twice in the
\* input list gets an error.
DuplicateErrors(products) ==
    LET dup == {products[j].SKU : j \in
                  {j \in 1..Len(products) :
                      \E i \in 1..(j - 1) : products[i].SKU = products[j].SKU}}
    IN  [sku \in dup |-> Sprintf("Duplicate SKU %d in input list", sku)]

\* ProductRepository.Create, second loop from product i on.  cancelAt is
\* the iteration at which ctx.Err() is first seen non-nil (0: never).
RECURSIVE CreateRows(_, _, _, _, _, _)
CreateRows(i, products, errors, st, fault, cancelAt) ==
    IF i > Len(products)
    THEN [errors |-> errors, store |-> st]
    ELSE LET sku == products[i].SKU
         IN  IF cancelAt = i
             THEN [errors |->
                     [k \in DOMAIN errors \cup
                            {products[j].SKU : j \in 1..Len(products)} |->
                        IF k \in DOMAIN errors THEN errors[k]
                        ELSE Sprintf("Operation cancelled for SKU %d: %s", k)],
                   store |-> st]
             ELSE IF sku \in DOMAIN errors
             THEN CreateRows(i + 1, products, errors, st, fault, cancelAt)
             ELSE IF fault = [sku |-> sku, op |-> "read"]
             THEN CreateRows(i + 1, products,
                      Put(errors, sku, Sprintf("Error checking SKU %d: %s", sku)),
                      st, fault, cancelAt)
             ELSE IF Row(st, sku) # NoRow
             THEN CreateRows(i + 1, products,
                      Put(errors, sku,
                          Sprintf("Product with SKU %d already exists", sku)),
                      st, fault, cancelAt)
             ELSE IF fault = [sku |-> sku, op |-> "write"]
             THEN CreateRows(i + 1, products,
                      Put(errors, sku,
                          Sprintf("Error creating product with SKU %d: %s", sku)),
                      st, fault, cancelAt)
             ELSE CreateRows(i + 1, products, errors,
                      [st EXCEPT ![sku] = products[i].Name], fault, cancelAt)

\* ProductRepository.Create
ProductRepository_Create(st, products, fault, cancelAt) ==
    IF Len(products) = 0
    THEN [errors |-> NilMap, store |-> st]
    ELSE CreateRows(1, products, DuplicateErrors(products), st, fault,
                    cancelAt)

\* ProductRepository.GetBySKU
ProductRepository_GetBySKU(st, sku, fault) ==
    IF fault = [sku |-> sku, op |-> "read"]
    THEN [nil |-> TRUE, err |-> "db error"]
    ELSE IF Row(st, sku) = NoRow
    THEN [nil |-> TRUE, err |-> "record not found"]
    ELSE [nil |-> FALSE, err |-> ""]

\* ProductRepository.Update, from product i on.
RECURSIVE UpdateRows(_, _, _, _, _)
UpdateRows(i, products, errors, st, fault) ==
    IF i > Len(products)
    THEN [errors |-> errors, store |-> st]
    ELSE LET sku == products[i].SKU
         IN  IF fault = [sku |-> sku, op |-> "write"]
             THEN UpdateRows(i + 1, products,
                      Put(errors, sku,
                          Sprintf("Error to update product with SKU %d: %s", sku)),
                      st, fault)
             ELSE IF Row(st, sku) = NoRow
             THEN UpdateRows(i + 1, products,
                      Put(errors, sku,
                          Sprintf("Product with SKU %d not found", sku)),
                      st, fault)
             ELSE UpdateRows(i + 1, products, errors,
                      [st EXCEPT ![sku] = products[i].Name], fault)

\* ProductRepository.Update
ProductRepository_Update(st, products, fault) ==
    UpdateRows(1, products, NilMap, st, fault)

\* ProductRepository.Delete, from SKU i on.
RECURSIVE DeleteRows(_, _, _, _, _)
DeleteRows(i, skus, errors, st, fault) ==
    IF i > Len(skus)
    THEN [errors |-> errors, store |-> st]
    ELSE LET sku == skus[i]
         IN  IF fault = [sku |-> sku, op |-> "write"]
             THEN DeleteRows(i + 1, skus,
                      Put(errors, sku,
                          Sprintf("Error to delete product with SKU %d: %s", sku)),
                      st, fault)
             ELSE IF Row(st, sku) = NoRow
             THEN DeleteRows(i + 1, skus,
                      Put(errors, sku,
                          Sprintf("Product with SKU %d not found", sku)),
                      st, fault)
             ELSE DeleteRows(i + 1, skus, errors,
                      [st EXCEPT ![sku] = NoRow], fault)

\* ProductRepository.Delete
ProductRepository_Delete(st, skus, fault) ==
    DeleteRows(1, skus, NilMap, st, fault)

\* ------------------------------------------------------ product use case
\* ProductUseCase.publishToRabbitMQ: the call of rabbitMQ.Publish made
\* for one product.  pubFail holds the SKUs whose Publish returns an
\* error; the error is logged and nothing is returned to the caller.
publishToRabbitMQ(event, sku, name, userEmail, pubFail) ==
    [queue |-> "product_events", event |-> event, sku |-> sku,
     name |-> name, responsible_email |-> userEmail,
     err |-> sku \in pubFail]

\* The Publish calls of a loop over products that skips the SKUs with an
\* entry in errors.
PublishEach(event, products, errors, userEmail, pubFail) ==
    LET ok == SelectSeq(products, LAMBDA p : p.SKU \notin DOMAIN errors)
    IN  [i \in 1..Len(ok) |->
            publishToRabbitMQ(event, ok[i].SKU, ok[i].Name, userEmail,
                              pubFail)]

\* The outcome of a use-case call: the map it returns, the second map
\* that ProductUseCaseInterface.Create declares, the table afterwards,
\* the Publish calls and the repository methods called, in order.
UseCaseResult(errors, st, publishes, repo) ==
    [errors |-> errors, publishErrors |-> NilMap, store |-> st,
     publishes |-> publishes, repo |-> repo]

\* Variant: an event is published for every product of the list.
ProductUseCase_CreatePublishesAll(st, products, userEmail, fault, cancelAt, pubFail) ==
    LET r == ProductRepository_Create(st, products, fault, cancelAt)
    IN  UseCaseResult(r.errors, r.store,
            PublishEach("product_created", products, NilMap, userEmail,
                        pubFail),
            <<"Create">>)

\* ProductUseCase.Create.  It returns one map, the creation errors: no
\* publish error reaches the caller.
ProductUseCase_Create(st, products, userEmail, fault, cancelAt, pubFail) ==
    LET r == ProductRepository_Create(st, products, fault, cancelAt)
    IN  UseCaseResult(r.errors, r.store,
            PublishEach("product_created", products, r.errors, userEmail,
                        pubFail),
            <<"Create">>)

\* ProductUseCase.GetBySKU
ProductUseCase_GetBySKU(st, sku, fault) ==
    LET r == ProductRepository_GetBySKU(st, sku, fault)
    IN  IF r.err # "" THEN [nil |-> TRUE, err |-> r.err]
        ELSE IF r.nil THEN [nil |-> TRUE, err |-> "product not found"]
        ELSE [nil |-> FALSE, err |-> ""]

\* The positions of the list whose GetBySKU returns an error.
Missing(st, skus, fault) ==
    {i \in 1..Len(skus) : ProductUseCase_GetBySKU(st, skus[i], fault).err # ""}

Min(S) == CHOOSE x \in S : \A y \in S : x <= y

GetBySKUCalls(n) == [i \in 1..n |-> "GetBySKU"]

SKUsOf(products) == [i \in 1..Len(products) |-> products[i].SKU]

\* Variant: a missing product is reported and the others are updated.
ProductUseCase_UpdateSkipsMissing(st, products, userEmail, fault, pubFail) ==
    LET miss == Missing(st, SKUsOf(products), fault)
        found == SelectSeq(products,
                     LAMBDA p : ProductUseCase_GetBySKU(st, p.SKU, fault).err = "")
        r == ProductRepository_Update(st, found, fault)
        errors == [sku \in DOMAIN r.errors \cup {products[i].SKU : i \in miss} |->
                     IF sku \in DOMAIN r.errors THEN r.errors[sku]
                     ELSE Sprintf("Product with SKU %d not found", sku)]
    IN  UseCaseResult(errors, r.store,
            PublishEach("product_updated", found, r.errors, userEmail, pubFail),
            GetBySKUCalls(Len(products)) \o <<"Update">>)

\* ProductUseCase.Update
ProductUseCase_Update(st, products, userEmail, fault, pubFail) ==
    LET miss == Missing(st, SKUsOf(products), fault)
    IN  IF miss # {}
        THEN UseCaseResult(
                 Put(NilMap, products[Min(miss)].SKU,
                     Sprintf("Product with SKU %d not found",
                             products[Min(miss)].SKU)),
                 st, <<>>, GetBySKUCalls(Min(miss)))
        ELSE LET r == ProductRepository_Update(st, products, fault)
             IN  UseCaseResult(r.errors, r.store,
                     PublishEach("product_updated", products, r.errors,
                                 userEmail, pubFail),
                     GetBySKUCalls(Len(products)) \o <<"Update">>)

\* The orders in which a range over the map productsToDelete can list
\* the keys found.
KeyOrders(keys) ==
    {order \in [1..Cardinality(keys) -> keys] :
        \A i, j \in 1..Cardinality(keys) : i # j => order[i] # order[j]}

\* The outcome of ProductUseCase.Delete once the existence loop has
\* filled errors and validSKUs.
DeleteFound(st, skus, errors, validSKUs, userEmail, fault, pubFail) ==
    LET r == ProductRepository_Delete(st, validSKUs, fault)
        valid == [i \in 1..Len(validSKUs) |->
                     Product(validSKUs[i], Row(st, validSKUs[i]))]
    IN  UseCaseResult(
            [sku \in DOMAIN errors \cup DOMAIN r.errors |->
                IF sku \in DOMAIN r.errors THEN r.errors[sku] ELSE errors[sku]],
            r.store,
            PublishEach("product_deleted", valid, r.errors, userEmail, pubFail),
            GetBySKUCalls(Len(skus)) \o
                (IF Len(validSKUs) > 0 THEN <<"Delete">> ELSE <<>>))

\* Variant: the first missing SKU ends the call.
ProductUseCase_DeleteStopsAtMissing(st, skus, userEmail, fault, pubFail, validSKUs) ==
    LET miss == Missing(st, skus, fault)
    IN  IF miss # {}
        THEN UseCaseResult(
                 Put(NilMap, skus[Min(miss)],
                     Sprintf("Product with SKU %d not found", skus[Min(miss)])),
                 st, <<>>, GetBySKUCalls(Min(miss)))
        ELSE DeleteFound(st, skus, NilMap, validSKUs, userEmail, fault, pubFail)

\* ProductUseCase.Delete.  validSKUs is the list the range over
\* productsToDelete produced, one of KeyOrders of the SKUs found.
ProductUseCase_Delete(st, skus, userEmail, fault, pubFail, validSKUs) ==
    LET miss == Missing(st, skus, fault)
        errors == [sku \in {skus[i] : i \in miss} |->
                      Sprintf("Product with SKU %d not found", sku)]
    IN  DeleteFound(st, skus, errors, validSKUs, userEmail, fault, pubFail)

\* The SKUs of the list that ProductUseCase.Delete finds.
Found(st, skus, fault) ==
    {skus[i] : i \in (1..Len(skus)) \ Missing(st, skus, fault)}

\* ------------------------------------------------------- product handler
\* ProductValidator.ValidateProduct and ValidateUpdateProduct, for the
\* SKU rule (required, gt=0; not zero): nil or the map of field errors.
ValidateProduct(product) ==
    IF product.SKU <= 0
    THEN Put(NilMap, "SKU", Sprintf("The SKU field is required", product.SKU))
    ELSE NilMap

\* type batchResult struct
batchResult(index, sku, status, errors) ==
    [Index |-> index, SKU |-> sku, Status |-> status, Errors |-> errors]

\* determineHTTPStatus
determineHTTPStatus(results) ==
    IF \A i \in 1..Len(results) : results[i].Status = "ok" THEN 201
    ELSE IF \A i \in 1..Len(results) : results[i].Status = "conflict" THEN 409
    ELSE 207

\* The products that pass validation, in input order.
ValidProducts(inputs) ==
    SelectSeq(inputs, LAMBDA p : ValidateProduct(p) = NilMap)

\* The response of a handler and the use-case call it made, if any.
Response(status, results, called, products, uc) ==
    [status |-> status, results |-> results, called |-> called,
     products |-> products, uc |-> uc]

\* The use case was not called.
NotCalled(st) == UseCaseResult(NilMap, st, <<>>, <<>>)

\* "already exists" occurs in the message.
IsConflict(msg) == msg.format = "Product with SKU %d already exists"

\* ProductHandler.Create, validation loop.  Index is the position in the
\* request, from 0.
CreateResults(inputs) ==
    [i \in 1..Len(inputs) |->
        IF ValidateProduct(inputs[i]) # NilMap
        THEN batchResult(i - 1, 0, "error", ValidateProduct(inputs[i]))
        ELSE batchResult(i - 1, 0, "pending", NilMap)]

\* ProductHandler.Create, refresh loop: for the product at position i of
\* products it looks for the pending result whose Index is i.
RefreshCreate(results, products, createErrors, publishErrors) ==
    [j \in 1..Len(results) |->
        IF j <= Len(products) /\ results[j].Status = "pending"
        THEN LET sku == products[j].SKU
             IN  IF sku \in DOMAIN createErrors
                 THEN [results[j] EXCEPT
                         !.Status = IF IsConflict(createErrors[sku])
                                    THEN "conflict" ELSE "error",
                         !.Errors = Put(@, "creation_error", createErrors[sku])]
                 ELSE IF sku \in DOMAIN publishErrors
                 THEN [results[j] EXCEPT
                         !.Status = "error",
                         !.Errors = Put(@, "publish_error", publishErrors[sku])]
                 ELSE [results[j] EXCEPT !.Status = "ok"]
        ELSE results[j]]

\* Variant: one invalid item makes the handler skip the use case.
ProductHandler_CreateAllOrNothing(st, inputs, userEmail, fault, cancelAt, pubFail) ==
    LET products == ValidProducts(inputs)
        called == Len(products) = Len(inputs) /\ Len(products) > 0
        uc == IF called
              THEN ProductUseCase_Create(st, products, userEmail, fault,
                                         cancelAt, pubFail)
              ELSE NotCalled(st)
        results == RefreshCreate(CreateResults(inputs), products,
                                 uc.errors, uc.publishErrors)
    IN  Response(determineHTTPStatus(results), results, called, products, uc)

\* ProductHandler.Create, for a body that decodes and a request that
\* carries userName and userEmail.
ProductHandler_Create(st, inputs, userEmail, fault, cancelAt, pubFail) ==
    LET products == ValidProducts(inputs)
        called == Len(products) > 0
        uc == IF called
              THEN ProductUseCase_Create(st, products, userEmail, fault,
                                         cancelAt, pubFail)
              ELSE NotCalled(st)
        results == RefreshCreate(CreateResults(inputs), products,
                                 uc.errors, uc.publishErrors)
    IN  Response(determineHTTPStatus(results), results, called, products, uc)

\* ProductHandler.Update, validation loop.
UpdateResults(inputs) ==
    [i \in 1..Len(inputs) |->
        IF ValidateProduct(inputs[i]) # NilMap
        THEN batchResult(i - 1, inputs[i].SKU, "error",
                         ValidateProduct(inputs[i]))
        ELSE batchResult(i - 1, inputs[i].SKU, "ok", NilMap)]

\* ProductHandler.Update, loop over updateErrors: results[i] for the
\* product at position i of products.
RefreshUpdate(results, products, updateErrors) ==
    [j \in 1..Len(results) |->
        IF j <= Len(products) /\ products[j].SKU \in DOMAIN updateErrors
        THEN [results[j] EXCEPT
                !.Status = "error",
                !.Errors = Put(@, "update_error",
                               updateErrors[products[j].SKU])]
        ELSE results[j]]

\* ProductHandler.Update, for a body that decodes and a request that
\* carries userEmail.
ProductHandler_Update(st, inputs, userEmail, fault, pubFail) ==
    LET products == ValidProducts(inputs)
        uc == ProductUseCase_Update(st, products, userEmail, fault, pubFail)
        results == RefreshUpdate(UpdateResults(inputs), products, uc.errors)
    IN  Response(determineHTTPStatus(results), results, TRUE, products, uc)

\* ProductHandler.Delete, for a body that decodes and a request that
\* carries userEmail.
ProductHandler_Delete(st, skus, userEmail, fault, pubFail, validSKUs) ==
    LET uc == ProductUseCase_Delete(st, skus, userEmail, fault, pubFail,
                                    validSKUs)
        results == [i \in 1..Len(skus) |->
                       IF skus[i] \in DOMAIN uc.errors
                       THEN batchResult(i - 1, skus[i], "error",
                                Put(NilMap, "delete_error", uc.errors[skus[i]]))
                       ELSE batchResult(i - 1, skus[i], "ok", NilMap)]
    IN  Response(determineHTTPStatus(results), results, TRUE, skus, uc)

\* A request that ends before the handler reads its items: the body is
\* not a product (SKU) or a list of them, or the context carries no user.
Rejected(st, status) == Response(status, <<>>, FALSE, <<>>, NotCalled(st))

\* ------------------------------------------------------------------ auth
\* bcrypt.GenerateFromPassword and bcrypt.CompareHashAndPassword
Hash(password) == "$2a$" \o password

CompareHashAndPassword(hashed, password) == hashed = Hash(password)

\* UserRepository.FindByEmail: a missing record is (nil, nil), any other
\* database error is (nil, err).
UserRepository_FindByEmail(us, email, dbErr) ==
    IF dbErr THEN [nil |-> TRUE, err |-> "db error"]
    ELSE IF us[email] = NoRow THEN [nil |-> TRUE, err |-> ""]
    ELSE [nil |-> FALSE, err |-> ""]

\* The outcome of Login: the token, the error, or the panic of a read
\* through a nil *model.User.
LoginResult(token, err, panic) == [token |-> token, err |-> err, panic |-> panic]

\* What config.New gives Login: an error, a configuration whose
\* JWT_SECRET_KEY is set but empty, or a usable one.
Configs == {"error", "empty secret", "ok"}

\* AuthUsecase.Login
AuthUsecase_Login(us, email, password, dbErr, cfg) ==
    LET r == UserRepository_FindByEmail(us, email, dbErr)
    IN  IF r.err # "" THEN LoginResult("", "user not found", FALSE)
        ELSE IF r.nil THEN LoginResult("", "", TRUE)
        ELSE IF ~CompareHashAndPassword(us[email], password)
        THEN LoginResult("", "incorrect password", FALSE)
        ELSE IF cfg = "error"
        THEN LoginResult("", "failed to load config", FALSE)
        ELSE IF cfg = "empty secret"
        THEN LoginResult("", "JWT secret key not configured", FALSE)
        ELSE LoginResult("jwt:" \o email, "", FALSE)

\* UserRepository.Create
UserRepository_Create(us, email, hashed, dbErr) ==
    LET r == UserRepository_FindByEmail(us, email, dbErr)
    IN  IF r.err # "" THEN [err |-> r.err, users |-> us]
        ELSE IF ~r.nil
        THEN [err |-> "user with this email already exists", users |-> us]
        ELSE [err |-> "", users |-> [us EXCEPT ![email] = hashed]]

\* AuthUsecase.CreateUser
AuthUsecase_CreateUser(us, email, password, dbErr) ==
    UserRepository_Create(us, email, Hash(password), dbErr)

\* r.db.Create(user): the row gets the next ID.  The primary key of the
\* table is (ID, Name) and Email has no unique index, so the insert
\* succeeds whatever rows the table has.
Insert(rows, email, hashed) ==
    Append(rows, [Email |-> email, Password |-> hashed])

\* Where("email = ?", email).First(&user) over the rows: the row with the
\* lowest ID among those with the email.
First(rows, email) ==
    LET hits == {i \in 1..Len(rows) : rows[i].Email = email}
    IN  IF hits = {} THEN NoRow
        ELSE rows[CHOOSE i \in hits : \A j \in hits : i <= j].Password

\* The table as the queries of the repository see it.
Table(rows) == [email \in Emails |-> First(rows, email)]

\* --------------------------------------------------------- the HTTP API
\* The items a request body can carry: SKU 0 fails validation.
Items == [SKU : 0..MaxSKU, Name : Names]

Lists(S) == UNION {[1..n -> S] : n \in 0..MaxItems}

\* The user the auth middleware puts in the request context.
Requesters == {"teste@exemplo.com"}

\* The faults a request about these SKUs can meet.
FaultsOn(skus) == {f \in Faults : f = NoFault \/ f.sku \in skus}

SKUSet(products) == {products[i].SKU : i \in 1..Len(products)}

\* The handler has written its response (c.JSON) and returned: the server
\* is ready for the next request.
Respond ==
    /\ last # NoCall
    /\ last' = NoCall
    /\ UNCHANGED <<consumerVars, userRows, reg, store, users>>

\* POST /products
ServeCreate ==
    /\ last = NoCall
    /\ \E inputs \in Lists(Items), userEmail \in Requesters :
       \E fault \in FaultsOn(SKUSet(inputs)),
          cancelAt \in 0..Len(ValidProducts(inputs)),
          pubFail \in SUBSET (SKUSet(inputs) \ {0}) :
         LET resp == ProductHandler_Create(store, inputs, userEmail, fault,
                                           cancelAt, pubFail)
         IN  /\ store' = resp.uc.store
             /\ last' = Served("Create", inputs,
                               Env(fault, cancelAt, pubFail), store, resp)
    /\ UNCHANGED <<consumerVars, userRows, reg, users>>

\* PUT /products
ServeUpdate ==
    /\ last = NoCall
    /\ \E inputs \in Lists(Items), userEmail \in Requesters :
       \E fault \in FaultsOn(SKUSet(inputs)),
          pubFail \in SUBSET (SKUSet(inputs) \ {0}) :
         LET resp == ProductHandler_Update(store, inputs, userEmail, fault,
                                           pubFail)
         IN  /\ store' = resp.uc.store
             /\ last' = Served("Update", inputs,
                               Env(fault, 0, pubFail), store, resp)
    /\ UNCHANGED <<consumerVars, userRows, reg, users>>

\* DELETE /products
ServeDelete ==
    /\ last = NoCall
    /\ \E skus \in Lists(0..MaxSKU), userEmail \in Requesters :
       \E fault \in FaultsOn({skus[i] : i \in 1..Len(skus)}),
          pubFail \in SUBSET ({skus[i] : i \in 1..Len(skus)} \ {0}) :
       \E validSKUs \in KeyOrders(Found(store, skus, fault)) :
         LET resp == ProductHandler_Delete(store, skus, userEmail, fault,
                                           pubFail, validSKUs)
         IN  /\ store' = resp.uc.store
             /\ last' = Served("Delete", skus,
                               Env(fault, 0, pubFail), store, resp)
    /\ UNCHANGED <<consumerVars, userRows, reg, users>>

\* A product request whose body does not decode (400) or whose context
\* lacks the user (401 in Create, 500).
ServeRejected ==
    /\ last = NoCall
    /\ \E op \in {"Create", "Update", "Delete"}, status \in {400, 401, 500} :
         /\ status = 401 => op = "Create"
         /\ last' = Served(op, <<>>, Env(NoFault, 0, {}), store,
                        Rejected(store, status))
    /\ UNCHANGED <<consumerVars, userRows, reg, store, users>>

ProductNext ==
    ServeCreate \/ ServeUpdate \/ ServeDelete \/ ServeRejected \/ Respond

ProductSpec == Init /\ [][ProductNext]_vars

\* POST /login, from the call of AuthUsecase.Login on.
ServeLogin ==
    /\ last = NoCall
    /\ \E email \in Emails, password \in Passwords, dbErr \in BOOLEAN,
          cfg \in Configs :
         last' = Served("Login", [email |-> email, password |-> password],
                        [dbErr |-> dbErr, cfg |-> cfg], users,
                        AuthUsecase_Login(users, email, password, dbErr, cfg))
    /\ UNCHANGED <<consumerVars, userRows, reg, store, users>>

\* POST /register, from the call of AuthUsecase.CreateUser on.
ServeCreateUser ==
    /\ last = NoCall
    /\ \E email \in Emails, password \in Passwords, dbErr \in BOOLEAN :
         LET r == AuthUsecase_CreateUser(users, email, password, dbErr)
         IN  /\ users' = r.users
             /\ userRows' = IF r.users = users THEN userRows
                            ELSE Insert(userRows, email, Hash(password))
             /\ last' = Served("CreateUser",
                               [email |-> email, password |-> password],
                               [dbErr |-> dbErr, cfg |-> "ok"], users,
                               LoginResult("", r.err, FALSE))
    /\ UNCHANGED <<consumerVars, reg, store>>

AuthNext == ServeLogin \/ ServeCreateUser \/ Respond

AuthSpec == Init /\ [][AuthNext]_vars

\* UserRepository.Create up to its test of existingUser: a goroutine
\* takes a POST /register and runs FindByEmail.
RegisterFind(q) ==
    /\ reg[q].at = "idle"
    /\ \E email \in Emails, password \in Passwords, dbErr \in BOOLEAN :
         LET r == UserRepository_FindByEmail(Table(userRows), email, dbErr)
         IN  reg' = [reg EXCEPT ![q] =
                IF r.err # ""
                THEN Registration("done", email, password, r.err)
                ELSE IF ~r.nil
                THEN Registration("done", email, password,
                                  "user with this email already exists")
                ELSE Registration("insert", email, password, "")]
    /\ UNCHANGED <<consumerVars, store, users, userRows, last>>

\* UserRepository.Create from r.db.Create(user) on, in a goroutine whose
\* FindByEmail found no row.
RegisterInsert(q) ==
    /\ reg[q].at = "insert"
    /\ \E dbErr \in BOOLEAN :
         IF dbErr
         THEN /\ reg' = [reg EXCEPT ![q].at = "done", ![q].err = "db error"]
              /\ UNCHANGED <<users, userRows>>
         ELSE /\ userRows' = Insert(userRows, reg[q].email,
                                    Hash(reg[q].password))
              /\ users' = Table(userRows')
              /\ reg' = [reg EXCEPT ![q].at = "done"]
    /\ UNCHANGED <<consumerVars, store, last>>

\* gin serves every request in a goroutine of its own.
RegisterNext == \E q \in Goroutines : RegisterFind(q) \/ RegisterInsert(q)

RegisterSpec == Init /\ [][RegisterNext]_vars

\* The request served last is a product request that reached the use case.
UseCaseCalled(op) == last.op = op /\ last.resp.called

\* ------------------------------------------------------------ properties
Resolutions(t) == acked[t] + nacked[t]

InBatch(t) == \E i \in 1..Len(batch) : batch[i].msg.tag = t

FlushTags(f) == {f.tags[i] : i \in 1..Len(f.tags)}

Failed(f) == f.call # 0 /\ sent[f.call].err

Succeeded(f) == f.call # 0 /\ ~sent[f.call].err

\* C1: every delivery appended to the batch is resolved by exactly one
\* Ack or Nack call: it is unresolved only while it sits in the batch of
\* the running loop, it is never resolved twice, it is resolved when Start
\* has returned, and it is eventually resolved.
C1_ResolvedOnceInv ==
    \A t \in appended :
        /\ Resolutions(t) <= 1
        /\ Resolutions(t) = 0 => (pc = "select" /\ InBatch(t))
        /\ InBatch(t) /\ pc = "select" => Resolutions(t) = 0

C1_ExactlyOneResolution ==
    /\ []C1_ResolvedOnceInv
    /\ []<>(pc = "returned" \/ batch = <<>>)

C1_Witness ==
    /\ pc = "returned"
    /\ \E t \in appended : acked[t] = 1
    /\ \E t \in appended : nacked[t] = 1

\* C2: sendEmail is only ever called with a non-empty slice of events.
C2_NeverDispatchedEmpty ==
    \A c \in 1..Len(sent) : Len(sent[c].events) > 0

\* Start has returned through a flush block that found the batch empty,
\* after an earlier batch was sent.
C2_Witness ==
    /\ pc = "returned"
    /\ batch = <<>>
    /\ Len(sent) >= 1

\* C3: when sendEmail fails for a batch, every delivery of the batch is
\* Nacked exactly once and none is Acked, and sendEmail was called once
\* for the batch.
C3_FailureRequeuesAll ==
    \A k \in 1..Len(flushes) :
        Failed(flushes[k]) =>
            /\ flushes[k].calls = 1
            /\ \A t \in FlushTags(flushes[k]) :
                   nacked[t] = 1 /\ acked[t] = 0
            /\ \A j \in 1..Len(flushes) :
                   j # k => FlushTags(flushes[j]) \cap FlushTags(flushes[k]) = {}

C3_Witness ==
    \E k \in 1..Len(flushes) :
        /\ Failed(flushes[k])
        /\ Len(flushes[k].tags) >= 2
        /\ \A t \in FlushTags(flushes[k]) : nacked[t] = 1

\* The decoded event of a delivery.
EventOfTag(t) == Unmarshal(delivered[t]).event

\* C4 as stated: a delivery is Acked only if a sendEmail call whose events
\* contain the delivery's event returned success.
C4_AckOnlyAfterSuccessfulDispatch ==
    \A t \in Tags :
        acked[t] > 0 =>
            \E c \in 1..Len(sent) :
                /\ ~sent[c].err
                /\ \E i \in 1..Len(sent[c].events) :
                       sent[c].events[i] = EventOfTag(t)

\* C4 amended: a delivery is Acked only if the sendEmail call made for its
\* batch carried its event and returned success, or its batch was flushed
\* by capacity or by the timer with a first event that has no
\* ResponsibleEmail, in which case the batch is Acked without any call.
C4_AckOnlyAfterSuccessOrNoAddress ==
    \A t \in Tags :
        acked[t] > 0 =>
            \E k \in 1..Len(flushes) :
                \E i \in 1..Len(flushes[k].tags) :
                    /\ flushes[k].tags[i] = t
                    /\ \/ /\ Succeeded(flushes[k])
                          /\ i \in 1..Len(sent[flushes[k].call].events)
                          /\ sent[flushes[k].call].events[i] = EventOfTag(t)
                       \/ /\ flushes[k].calls = 0
                          /\ flushes[k].trigger \in {"size", "timer"}
                          /\ flushes[k].firstEmail = NoEmail

C4_Witness ==
    /\ \E k \in 1..Len(flushes) :
           /\ flushes[k].calls = 0
           /\ \A t \in FlushTags(flushes[k]) : acked[t] = 1
    /\ \E k \in 1..Len(flushes) :
           /\ Succeeded(flushes[k])
           /\ \A t \in FlushTags(flushes[k]) : acked[t] = 1

\* C5: the deliveries of a resolved batch are either all Acked and none
\* Nacked, or all Nacked and none Acked.
C5_UniformResolution ==
    \A k \in 1..Len(flushes) :
        \/ \A t \in FlushTags(flushes[k]) : acked[t] = 1 /\ nacked[t] = 0
        \/ \A t \in FlushTags(flushes[k]) : nacked[t] = 1 /\ acked[t] = 0

C5_Witness ==
    /\ \E k \in 1..Len(flushes) :
           /\ Len(flushes[k].tags) >= 2
           /\ \A t \in FlushTags(flushes[k]) : acked[t] = 1
    /\ \E k \in 1..Len(flushes) :
           \A t \in FlushTags(flushes[k]) : nacked[t] = 1

LastFlush == flushes[Len(flushes)]

BatchTags == [i \in 1..Len(batch) |-> batch[i].msg.tag]

\* C6: when Start returns on cancellation with items in the batch,
\* sendEmail was called once with the events of that batch and every
\* delivery of the batch has been Acked or Nacked exactly once.
C6_CancellationDrains ==
    (pc = "returned" /\ ret = "ctx.Err" /\ batch # <<>>) =>
        /\ flushes # <<>>
        /\ LastFlush.trigger = "ctx"
        /\ LastFlush.tags = BatchTags
        /\ LastFlush.calls = 1
        /\ LastFlush.call = Len(sent)
        /\ Len(sent[Len(sent)].events) = Len(batch)
        /\ \A i \in 1..Len(batch) :
               /\ sent[Len(sent)].events[i] = EventOfTag(batch[i].msg.tag)
               /\ Resolutions(batch[i].msg.tag) = 1

C6_Witness ==
    /\ pc = "returned"
    /\ ret = "ctx.Err"
    /\ Len(batch) >= 2
    /\ \A i \in 1..Len(batch) : Resolutions(batch[i].msg.tag) = 1

\* C7 as stated: a batch flushed by the timer is flushed exactly
\* batchTimeout after its first item was appended.
C7_TimerFlushAtFullTimeout ==
    \A k \in 1..Len(flushes) :
        flushes[k].trigger = "timer" => flushes[k].age = batchTimeout

\* C7 amended: appending the first item of a batch leaves the timer as it
\* is (it runs from the start of the loop or from the last capacity flush
\* or expiry), so the expiry that flushes a batch comes at most
\* batchTimeout after the batch's first item, and possibly earlier.
C7_TimerRunsFromLastReset ==
    [][/\ (batch = <<>> /\ batch' # <<>>) =>
              (timerLeft' = timerLeft /\ timerC' = timerC)
       /\ batch' # <<>> => age' + timerLeft' <= batchTimeout
       /\ (Len(flushes') > Len(flushes)
             /\ flushes'[Len(flushes')].trigger = "timer") =>
              flushes'[Len(flushes')].age <= batchTimeout]_vars

\* A batch was flushed by the timer before it was batchTimeout old, and
\* another one when it was exactly that old.
C7_Witness ==
    /\ \E k \in 1..Len(flushes) :
           flushes[k].trigger = "timer" /\ flushes[k].age < batchTimeout
    /\ \E k \in 1..Len(flushes) :
           flushes[k].trigger = "timer" /\ flushes[k].age = batchTimeout

\* No further delivery will arrive and a single item waits in the batch.
OneItemWaiting ==
    /\ pc = "select"
    /\ Len(batch) = 1
    /\ msgs = <<>>
    /\ nextTag > MaxDeliveries

\* C8: the timer case resolves a waiting batch as one flush that empties
\* the batch, no later than batchTimeout after its first item and with no
\* earlier flush of the same deliveries; a single item with an address is
\* sent as one email of one event; an expiry on an empty batch flushes
\* nothing; and a single waiting item is eventually flushed by the timer
\* unless Start returns first.
C8_TimerStep ==
    CaseTimer =>
        IF batch = <<>>
        THEN flushes' = flushes /\ sent' = sent /\ batch' = <<>>
        ELSE /\ batch' = <<>>
             /\ Len(flushes') = Len(flushes) + 1
             /\ flushes'[Len(flushes')].trigger = "timer"
             /\ flushes'[Len(flushes')].tags = BatchTags
             /\ flushes'[Len(flushes')].age <= batchTimeout
             /\ \A k \in 1..Len(flushes) :
                    \A i \in 1..Len(batch) :
                        batch[i].msg.tag \notin FlushTags(flushes[k])
             /\ (Len(batch) = 1 /\ batch[1].event.ResponsibleEmail # NoEmail)
                    => /\ Len(sent') = Len(sent) + 1
                       /\ sent'[Len(sent')].events = <<batch[1].event>>

C8_TimerFlushesSingleItemOnce ==
    /\ [][C8_TimerStep]_vars
    /\ OneItemWaiting ~>
           \/ pc = "returned"
           \/ /\ batch = <<>>
              /\ flushes # <<>>
              /\ LastFlush.trigger = "timer"
              /\ Len(LastFlush.tags) = 1

\* One item was flushed by the timer, and a later expiry is waiting while
\* the batch is empty.
C8_Witness ==
    /\ Len(flushes) = 1
    /\ flushes[1].trigger = "timer"
    /\ Len(flushes[1].tags) = 1
    /\ flushes[1].call = 1
    /\ batch = <<>>
    /\ timerC
    /\ pc = "select"

\* C9: the batch holds fewer than batchSize items between iterations, and
\* the iteration whose append fills the batch resolves every delivery of
\* it and empties it before reading another delivery, whatever the state
\* of the timer; the batch is sent in that iteration when its first event
\* has a ResponsibleEmail.
C9_FillingAppend ==
    /\ CaseDelivery
    /\ ~Unmarshal(Head(msgs).Body).err
    /\ Len(batch) + 1 >= batchSize

C9_SizeFlushInSameIteration ==
    [][/\ Len(batch') < batchSize
       /\ C9_FillingAppend =>
            /\ batch' = <<>>
            /\ pc' = "select"
            /\ Len(flushes') = Len(flushes) + 1
            /\ flushes'[Len(flushes')].trigger = "size"
            /\ flushes'[Len(flushes')].tags
                   = Append(BatchTags, Head(msgs).tag)
            /\ \A t \in FlushTags(flushes'[Len(flushes')]) :
                   acked'[t] + nacked'[t] = 1
            /\ (Append(batch, batchItem(EventOfTag(Head(msgs).tag),
                                         Head(msgs)))[1]
                    .event.ResponsibleEmail # NoEmail)
                 => /\ Len(sent') = Len(sent) + 1
                    /\ Len(sent'[Len(sent')].events) = Len(batch) + 1]_vars

\* A full batch was sent and resolved before its timer had expired.
C9_Witness ==
    \E k \in 1..Len(flushes) :
        /\ flushes[k].trigger = "size"
        /\ Len(flushes[k].tags) = batchSize
        /\ flushes[k].call # 0
        /\ flushes[k].age < batchTimeout
        /\ ~timerC

\* C10: the events handed to sendEmail for a batch are the decoded events
\* of the batch's deliveries, one per delivery, in the order of delivery,
\* and the batch holds every delivery appended in its window.
C10_OrderPreserved ==
    \A k \in 1..Len(flushes) :
        LET f == flushes[k]
        IN  /\ \A i, j \in 1..Len(f.tags) : i < j => f.tags[i] < f.tags[j]
            /\ \A t \in appended :
                   (f.tags[1] <= t /\ t <= f.tags[Len(f.tags)])
                       => t \in FlushTags(f)
            /\ f.call # 0 =>
                   /\ Len(sent[f.call].events) = Len(f.tags)
                   /\ \A i \in 1..Len(f.tags) :
                          sent[f.call].events[i] = EventOfTag(f.tags[i])

\* A batch of two different events was sent.
C10_Witness ==
    \E k \in 1..Len(flushes) :
        /\ flushes[k].call # 0
        /\ Len(flushes[k].tags) >= 2
        /\ sent[flushes[k].call].events[1] # sent[flushes[k].call].events[2]

\* The delivery case is taking a payload that json.Unmarshal rejects.
UndecodableDelivery == CaseDelivery /\ ~Head(msgs).Body.valid

\* C11: a delivery whose payload does not decode is Nacked once in its own
\* iteration and is not appended; the batch, its age and the timer are as
\* before, nothing is sent or flushed, and the loop goes on.
C11_DecodeFailureIsolated ==
    [][UndecodableDelivery =>
          /\ nacked' = [nacked EXCEPT ![Head(msgs).tag] = nacked[Head(msgs).tag] + 1]
          /\ acked' = acked
          /\ appended' = appended
          /\ batch' = batch
          /\ age' = age
          /\ timerLeft' = timerLeft
          /\ timerC' = timerC
          /\ sent' = sent
          /\ flushes' = flushes
          /\ pc' = "select"]_vars

\* An undecodable payload came between two decodable ones: the batch holds
\* the two.
C11_Witness ==
    /\ pc = "select"
    /\ BatchTags = <<1, 3>>
    /\ ~delivered[2].valid
    /\ nacked[2] = 1
    /\ msgs = <<>>

\* The deliveries the loop has taken from the channel.
Consumed == {t \in 1..Len(delivered) : \A i \in 1..Len(msgs) : msgs[i].tag # t}

RequiredKeys == {"sku", "responsible_email"}

\* C12 as stated: a delivery whose payload lacks a field of the event is
\* not appended to the batch but requeued.
C12_MissingFieldsRejected ==
    \A t \in Consumed :
        delivered[t].keys # RequiredKeys => (t \notin appended /\ nacked[t] >= 1)

\* C12 amended: only a payload that json.Unmarshal rejects is requeued
\* instead of appended.  A syntactically valid object that lacks fields
\* decodes with the zero value (0, "") in each missing field and its
\* delivery is appended to the batch like any other.
C12_MissingFieldsDecodeToZero ==
    /\ \A t \in Consumed : (t \in appended) <=> delivered[t].valid
    /\ \A i \in 1..Len(batch) :
           LET body == delivered[batch[i].msg.tag]
           IN  /\ body.valid
               /\ batch[i].event.SKU
                      = (IF "sku" \in body.keys THEN body.sku ELSE 0)
               /\ batch[i].event.ResponsibleEmail
                      = (IF "responsible_email" \in body.keys
                         THEN body.email ELSE "")

\* An object without responsible_email sits in the batch with an empty
\* address.
C12_Witness ==
    \E i \in 1..Len(batch) :
        /\ "responsible_email" \notin delivered[batch[i].msg.tag].keys
        /\ batch[i].event.ResponsibleEmail = ""
        /\ nacked[batch[i].msg.tag] = 0

\* C13: the closed-channel case ends the loop with the error "message
\* channel closed"; when the batch holds items it first calls sendEmail
\* once with the batch's events and Acks or Nacks every delivery of it
\* exactly once.
C13_ClosedStep ==
    CaseClosed =>
        /\ pc' = "returned"
        /\ ret' = "message channel closed"
        /\ batch # <<>> =>
              /\ Len(flushes') = Len(flushes) + 1
              /\ flushes'[Len(flushes')].trigger = "closed"
              /\ flushes'[Len(flushes')].tags = BatchTags
              /\ Len(sent') = Len(sent) + 1
              /\ sent'[Len(sent')].events = [i \in 1..Len(batch) |-> batch[i].event]
              /\ \A i \in 1..Len(batch) :
                     acked'[batch[i].msg.tag] + nacked'[batch[i].msg.tag] = 1
              /\ \/ \A i \in 1..Len(batch) : acked'[batch[i].msg.tag] = 1
                 \/ \A i \in 1..Len(batch) : nacked'[batch[i].msg.tag] = 1

C13_StreamClosedResolvesThenReturns ==
    [][C13_ClosedStep]_vars

\* Start returned the closed-channel error after resolving two pending
\* items, with no cancellation requested.
C13_Witness ==
    /\ pc = "returned"
    /\ ret = "message channel closed"
    /\ ~ctxDone
    /\ Len(batch) >= 2
    /\ flushes # <<>>
    /\ LastFlush.trigger = "closed"

\* C14 as stated: the status returned on cancellation is not an error.
C14_CancellationIsNotAnError ==
    [][CaseCtxDone => ~ConsumerStoppedWithError(ret')]_vars

\* C14 amended: cancellation ends the loop by returning ctx.Err(), a
\* non-nil error that main logs as "Consumer stopped with error"; it
\* differs from the "message channel closed" error of the closed-channel
\* case.
C14_CancellationReturnsDistinctError ==
    [][/\ CaseCtxDone =>
            /\ pc' = "returned"
            /\ ConsumerStoppedWithError(ret')
            /\ ret' # "message channel closed"
       /\ CaseClosed =>
            /\ ConsumerStoppedWithError(ret')
            /\ ret' = "message channel closed"]_vars

\* Start has returned on cancellation although the channel was closed too.
C14_Witness ==
    /\ pc = "returned"
    /\ ret = "ctx.Err"
    /\ msgsClosed

\* The number of positions of a sequence that satisfy a test.
CountIf(seq, Test(_)) == Cardinality({i \in 1..Len(seq) : Test(seq[i])})

\* C15: in a Create call, a product_created event is published to
\* product_events once for each input product whose SKU has no entry in
\* the repository's error map and for no other; the call returns that
\* error map, which is empty (nil) exactly when every product of the list
\* got its row.
C15_CreatePublishesForCreatedOnly ==
    UseCaseCalled("Create") =>
        LET uc == last.resp.uc
            products == last.resp.products
            repoErrors == ProductRepository_Create(last.before, products,
                              last.env.fault, last.env.cancelAt).errors
        IN  /\ uc.errors = repoErrors
            /\ \A i \in 1..Len(uc.publishes) :
                   /\ uc.publishes[i].event = "product_created"
                   /\ uc.publishes[i].queue = "product_events"
            /\ \A sku \in SKUs :
                   CountIf(uc.publishes, LAMBDA e : e.sku = sku)
                     = IF sku \in DOMAIN repoErrors THEN 0
                       ELSE CountIf(products, LAMBDA q : q.SKU = sku)
            /\ DOMAIN uc.errors = {} <=>
                   \A i \in 1..Len(products) :
                       /\ last.before[products[i].SKU] = NoRow
                       /\ uc.store[products[i].SKU] = products[i].Name

\* A Create of two products of which one existed already: one event, one
\* error.
C15_Witness ==
    /\ UseCaseCalled("Create")
    /\ Len(last.resp.products) = 2
    /\ DOMAIN last.resp.uc.errors = {last.resp.products[1].SKU}
    /\ Len(last.resp.uc.publishes) = 1
    /\ last.resp.uc.publishes[1].sku = last.resp.products[2].SKU
    /\ last.resp.uc.store[last.resp.products[2].SKU] # NoRow

\* The SKUs whose Publish returned an error in the last use-case call.
FailedPublishes ==
    {last.resp.uc.publishes[i].sku :
        i \in {i \in 1..Len(last.resp.uc.publishes) :
                  last.resp.uc.publishes[i].err}}

\* C16: a Create whose Publish fails for a created product reports that
\* SKU in the map of publish errors, apart from the creation errors, and
\* the handler does not answer that everything succeeded.
C16_PublishFailureReported ==
    UseCaseCalled("Create") =>
        /\ FailedPublishes \subseteq DOMAIN last.resp.uc.publishErrors
        /\ FailedPublishes # {} => last.resp.status # 201

\* The only product of a Create got its row, its Publish failed, and the
\* call returned no error at all: the response is 201 with status ok.
C16_Witness ==
    /\ UseCaseCalled("Create")
    /\ Len(last.resp.products) = 1
    /\ FailedPublishes = {last.resp.products[1].SKU}
    /\ DOMAIN last.resp.uc.errors = {}
    /\ DOMAIN last.resp.uc.publishErrors = {}
    /\ last.resp.uc.store[last.resp.products[1].SKU] = last.resp.products[1].Name
    /\ last.resp.status = 201

\* The positions of the list passed to the use case whose SKU has no row.
Absent == {i \in 1..Len(last.resp.products) :
              Row(last.before, last.resp.products[i].SKU) = NoRow}

C18_DeleteSkipsMissing ==
    UseCaseCalled("Delete") =>
        LET uc == last.resp.uc
            skus == last.resp.products
            asked == {skus[i] : i \in 1..Len(skus)}
        IN  /\ \A sku \in asked :
                   Row(last.before, sku) = NoRow =>
                       /\ sku \in DOMAIN uc.errors
                       /\ uc.errors[sku]
                            = Sprintf("Product with SKU %d not found", sku)
            /\ \A sku \in asked :
                   sku \notin DOMAIN uc.errors =>
                       /\ Row(last.before, sku) # NoRow
                       /\ Row(uc.store, sku) = NoRow
            /\ \A sku \in SKUs \ asked : uc.store[sku] = last.before[sku]
            /\ \A i \in 1..Len(uc.publishes) :
                   /\ uc.publishes[i].event = "product_deleted"
                   /\ uc.publishes[i].queue = "product_events"
            /\ \A sku \in 0..MaxSKU :
                   CountIf(uc.publishes, LAMBDA e : e.sku = sku)
                     = IF /\ sku \in asked
                          /\ Row(last.before, sku) # NoRow
                          /\ sku \notin DOMAIN uc.errors
                       THEN 1 ELSE 0
            /\ DOMAIN uc.errors = {} <=>
                   \A sku \in asked : /\ Row(last.before, sku) # NoRow
                                      /\ Row(uc.store, sku) = NoRow

\* A Delete of a missing SKU followed by an existing one: the missing one
\* is reported, the existing one is deleted and its event published.
C18_Witness ==
    /\ UseCaseCalled("Delete")
    /\ Len(last.resp.products) = 2
    /\ Row(last.before, last.resp.products[1]) = NoRow
    /\ Row(last.before, last.resp.products[2]) # NoRow
    /\ DOMAIN last.resp.uc.errors = {last.resp.products[1]}
    /\ Row(last.resp.uc.store, last.resp.products[2]) = NoRow
    /\ Len(last.resp.uc.publishes) = 1
    /\ last.resp.uc.publishes[1].sku = last.resp.products[2]

\* C19: a Login for an email without a user record returns the error
\* "user not found" and no token, and does not panic, however the
\* repository reports the absence.
C19_LoginUnknownUserFails ==
    (last.op = "Login" /\ last.before[last.input.email] = NoRow) =>
        /\ last.resp.err = "user not found"
        /\ last.resp.token = ""
        /\ ~last.resp.panic

\* A Login for an email without a record, with the database answering:
\* FindByEmail returned (nil, nil) and Login read user.Password.
C19_Witness ==
    /\ last.op = "Login"
    /\ last.before[last.input.email] = NoRow
    /\ ~last.env.dbErr
    /\ last.resp.panic
    /\ last.resp.err = ""

\* The positions of the request whose item fails validation.
Invalid == {i \in 1..Len(last.input) : ValidateProduct(last.input[i]) # NilMap}

\* The last position of the request that carries this SKU.
LastOf(sku) ==
    CHOOSE i \in 1..Len(last.input) :
        /\ last.input[i].SKU = sku
        /\ \A j \in (i + 1)..Len(last.input) : last.input[j].SKU # sku

\* C20: in a Create or Update request with an item that fails
\* validation, the valid items are passed to the use case all the same.
\* When the database answers and the request is not cancelled, every
\* valid item of a Create whose SKU is new and occurs once gets its row,
\* and every valid item of an Update whose products all exist is written.
\* Delete validates no item: an SKU without a row (0 included) does not
\* keep the existing SKUs of the request from being deleted.
C20_InvalidItemDoesNotBlockOthers ==
    /\ (last.op \in {"Create", "Update"} /\ last.resp.results # <<>>
          /\ Invalid # {}) =>
          LET valid == (1..Len(last.input)) \ Invalid
              calm == last.env.fault = NoFault /\ last.env.cancelAt = 0
          IN  /\ valid # {} => last.resp.called
              /\ Len(last.resp.products) = Cardinality(valid)
              /\ (last.op = "Create" /\ calm) =>
                    \A i \in valid :
                        (/\ last.before[last.input[i].SKU] = NoRow
                         /\ \A j \in valid \ {i} :
                                last.input[j].SKU # last.input[i].SKU)
                        => last.resp.uc.store[last.input[i].SKU]
                             = last.input[i].Name
              /\ (last.op = "Update" /\ calm
                    /\ \A i \in valid : last.before[last.input[i].SKU] # NoRow) =>
                    \A i \in valid :
                        last.resp.uc.store[last.input[i].SKU]
                          = last.input[LastOf(last.input[i].SKU)].Name
    /\ (last.op = "Delete" /\ last.resp.results # <<>>
          /\ last.env.fault = NoFault) =>
          \A i \in 1..Len(last.input) :
              Row(last.resp.uc.store, last.input[i]) = NoRow

\* A Create whose first item fails validation and whose second item is
\* new: the second item got its row.
C20_Witness ==
    /\ last.op = "Create"
    /\ Len(last.input) = 2
    /\ Invalid = {1}
    /\ last.before[last.input[2].SKU] = NoRow
    /\ last.resp.uc.store[last.input[2].SKU] = last.input[2].Name

\* C21 as stated: an iteration that finds ctx.Done() closed serves the
\* cancellation, and one that finds a delivery and an expiry serves the
\* delivery.
C21_SelectHasPriorities ==
    [][LoopStep =>
          /\ ctxDone => pc' = "returned" /\ ret' = "ctx.Err"
          /\ (~ctxDone /\ msgs # <<>>) => msgs' = Tail(msgs)]_vars

\* C21 amended: the select has no priority.  Whenever two of its cases
\* are ready, either can be served; in particular a waiting delivery can
\* be served, and appended to the batch, after cancellation has been
\* requested.  Whatever was appended, before the request or after it, has
\* been resolved once by the time Start returns on cancellation.
C21_SelectServesAnyReadyCase ==
    [](/\ (pc = "select" /\ ctxDone /\ msgs # <<>>) =>
              ENABLED CaseCtxDone /\ ENABLED CaseDelivery
       /\ (pc = "select" /\ ctxDone /\ timerC) =>
              ENABLED CaseCtxDone /\ ENABLED CaseTimer
       /\ (pc = "select" /\ msgs # <<>> /\ timerC) =>
              ENABLED CaseDelivery /\ ENABLED CaseTimer
       /\ (pc = "returned" /\ ret = "ctx.Err") =>
              \A t \in appended : Resolutions(t) = 1)

\* The select finds its three cases ready, with a batch pending:
\* ctx.Done() is closed, a delivery waits and the timer has expired.
C21_Witness ==
    /\ pc = "select"
    /\ ctxDone
    /\ msgs # <<>>
    /\ timerC
    /\ batch # <<>>

\* C27 as stated: an iteration that finds ctx.Done() closed and ends the
\* loop returns ctx.Err().
C27_CancellationWinsOverClosedStream ==
    [][(pc = "select" /\ ctxDone /\ pc' = "returned") => ret' = "ctx.Err"]_vars

\* C27 amended: with ctx.Done() closed and the delivery channel closed
\* and empty, either case can be served.  Start returns ctx.Err() when
\* the cancellation case is served and "message channel closed" when the
\* closed-channel case is served, whichever was requested first.
C27_StatusNamesTheCaseServed ==
    [](/\ (pc = "select" /\ ctxDone /\ msgsClosed /\ msgs = <<>>) =>
              ENABLED CaseCtxDone /\ ENABLED CaseClosed
       /\ pc = "returned" =>
              /\ ret \in {"ctx.Err", "message channel closed"}
              /\ ret = "ctx.Err" => ctxDone
              /\ ret = "message channel closed" => msgsClosed /\ msgs = <<>>)

\* Start returned the closed-channel error although cancellation had been
\* requested while it was still running.
C27_Witness ==
    /\ pc = "returned"
    /\ ret = "message channel closed"
    /\ ctxDone

\* The step resolves a batch through the capacity or the timer block.
FlushStep(trigger) ==
    /\ Len(flushes') = Len(flushes) + 1
    /\ flushes'[Len(flushes')].trigger = trigger

C23_EmptyExpiryOnlyRestartsTimer ==
    [][(CaseTimer /\ batch = <<>>) =>
          /\ batch' = <<>>
          /\ sent' = sent
          /\ acked' = acked
          /\ nacked' = nacked
          /\ flushes' = flushes
          /\ appended' = appended
          /\ pc' = "select"
          /\ timerLeft' = batchTimeout
          /\ ~timerC']_vars

\* The timer has expired with nothing in the batch, after an earlier
\* batch had been flushed by the timer: the timer case is about to run
\* on an empty batch.
C23_Witness ==
    /\ pc = "select"
    /\ batch = <<>>
    /\ timerC
    /\ msgs = <<>>
    /\ flushes # <<>>
    /\ LastFlush.trigger = "timer"

\* C25: the four resolution blocks of Start do the same with the same
\* batch and the same result of the dispatcher: the same sendEmail calls,
\* the same deliveries Acked and the same deliveries Nacked, also when the
\* first event of the batch has an empty ResponsibleEmail.
C25_FlushPathsAgree ==
    batch # <<>> =>
        \A smtpErr \in BOOLEAN :
            /\ CtxFlush(batch, smtpErr) = SizeFlush(batch, smtpErr)
            /\ ClosedFlush(batch, smtpErr) = SizeFlush(batch, smtpErr)
            /\ TimerFlush(batch, smtpErr) = SizeFlush(batch, smtpErr)

\* In one run, a batch whose first event has no address was acknowledged
\* without a dispatch by the timer block, and another such batch was
\* dispatched by the cancellation block and requeued when that failed.
C25_Witness ==
    \E j, k \in 1..Len(flushes) :
        /\ flushes[j].trigger = "timer"
        /\ flushes[j].firstEmail = NoEmail
        /\ flushes[j].calls = 0
        /\ \A i \in 1..Len(flushes[j].tags) : acked[flushes[j].tags[i]] = 1
        /\ flushes[k].trigger = "ctx"
        /\ flushes[k].firstEmail = NoEmail
        /\ flushes[k].calls = 1
        /\ flushes[k].err
        /\ \A i \in 1..Len(flushes[k].tags) : nacked[flushes[k].tags[i]] = 1

\* C24: an Ack or Nack call that fails is reported by the consumer (logged
\* or returned), the other deliveries of the batch still get the outcome
\* decided for the batch, and sendEmail is not called again for the batch.
C24_AckFailureReported ==
    /\ ackErrs \subseteq Reported(ackErrs)
    /\ \A j \in 1..Len(flushes) :
         /\ flushes[j].calls <= 1
         /\ \A i \in 1..Len(flushes[j].tags) :
              Resolutions(flushes[j].tags[i]) = 1

\* The connection broke with a full batch pending: its one dispatch
\* succeeded, every Ack was called once and failed, and Start returned
\* only the error of the closed channel.
C24_Witness ==
    /\ pc = "returned"
    /\ connDown
    /\ mainAt = "serving"
    /\ \E j \in 1..Len(flushes) :
         /\ Len(flushes[j].tags) > 1
         /\ flushes[j].calls = 1
         /\ ~flushes[j].err
         /\ \A i \in 1..Len(flushes[j].tags) :
              /\ flushes[j].tags[i] \in ackErrs
              /\ acked[flushes[j].tags[i]] = 1

\* C26: once main has closed the consumer's connection, and so when the
\* process exits, no delivery is pending in the batch and every delivery
\* that was appended has been Acked or Nacked once, on an open connection.
C26_BatchResolvedBeforeClose ==
    mainAt # "serving" =>
        /\ batch = <<>>
        /\ \A t \in appended : Resolutions(t) = 1 /\ t \notin ackErrs

\* The process exited while Start was still in its loop with a pending
\* batch: nothing of it was dispatched, Acked or Nacked.
C26_Witness ==
    /\ mainAt = "exited"
    /\ pc = "killed"
    /\ batch # <<>>
    /\ \A i \in 1..Len(batch) : Resolutions(batch[i].msg.tag) = 0

\* The status the outcome of the use case gives the valid item at
\* position i of a Create request.
CreateStatusOf(i) ==
    LET sku == last.input[i].SKU
        uc == last.resp.uc
    IN  IF sku \in DOMAIN uc.errors
        THEN IF IsConflict(uc.errors[sku]) THEN "conflict" ELSE "error"
        ELSE IF sku \in DOMAIN uc.publishErrors THEN "error"
        ELSE "ok"

\* C28: in the response of a Create there is one result per item of the
\* request, none of them is left "pending", and the result at the
\* position of a valid item carries the status of that item's own SKU,
\* also when an earlier item of the request failed validation.
C28_CreateResultsFinalAndIndexed ==
    (last.op = "Create" /\ last.resp.results # <<>>) =>
        LET res == last.resp.results
        IN  /\ Len(res) = Len(last.input)
            /\ \A i \in 1..Len(res) :
                 /\ res[i].Index = i - 1
                 /\ res[i].Status \in {"ok", "error", "conflict"}
                 /\ i \notin Invalid => res[i].Status = CreateStatusOf(i)

\* A Create whose first item fails validation and whose second item was
\* inserted: the response leaves the second item "pending" and its HTTP
\* status is 207.
C28_Witness ==
    /\ last.op = "Create"
    /\ Len(last.input) = 2
    /\ Invalid = {1}
    /\ last.resp.called
    /\ last.before[last.input[2].SKU] = NoRow
    /\ last.resp.uc.store[last.input[2].SKU] = last.input[2].Name
    /\ last.resp.results[2].Status = "pending"
    /\ last.resp.status = 207

\* C29: in the response of an Update, the result of a valid item whose
\* SKU has an error of the use case is "error" with that message as
\* update_error, and every other result is what the validation loop made
\* it.
C29_UpdateErrorOnOwnEntry ==
    (last.op = "Update" /\ last.resp.results # <<>>) =>
        LET res == last.resp.results
            errs == last.resp.uc.errors
        IN  /\ Len(res) = Len(last.input)
            /\ \A i \in 1..Len(res) :
                 IF i \notin Invalid /\ last.input[i].SKU \in DOMAIN errs
                 THEN /\ res[i].Status = "error"
                      /\ res[i].Errors =
                           Put(NilMap, "update_error", errs[last.input[i].SKU])
                 ELSE res[i] = UpdateResults(last.input)[i]

\* An Update whose first item fails validation and whose second item has
\* no row: the "not found" message of the second SKU is on the result of
\* the first item, and the second item is reported "ok".
C29_Witness ==
    /\ last.op = "Update"
    /\ Len(last.input) = 2
    /\ Invalid = {1}
    /\ last.before[last.input[2].SKU] = NoRow
    /\ last.input[2].SKU \in DOMAIN last.resp.uc.errors
    /\ "update_error" \in DOMAIN last.resp.results[1].Errors
    /\ last.resp.results[1].Errors["update_error"].sku = last.input[2].SKU
    /\ last.resp.results[2].Status = "ok"
    /\ last.resp.results[2].Errors = NilMap

\* The goroutines whose POST /register for this email was answered with
\* success.
Registered(email) ==
    {q \in Goroutines : /\ reg[q].at = "done"
                        /\ reg[q].email = email
                        /\ reg[q].err = ""}

\* C30: the users table never has two rows with the same email, and of
\* the concurrent CreateUser calls for one email at most one succeeds.
C30_EmailsUnique ==
    /\ \A i, j \in 1..Len(userRows) :
         userRows[i].Email = userRows[j].Email => i = j
    /\ \A email \in Emails : Cardinality(Registered(email)) <= 1

\* Two goroutines registered the same email at the same time: both found
\* no row, both inserted, both answered with success, and the table has
\* two rows with the email.
C30_Witness ==
    /\ Len(userRows) = 2
    /\ userRows[1].Email = userRows[2].Email
    /\ userRows[1].Password # userRows[2].Password
    /\ Registered(userRows[1].Email) = Goroutines
    /\ users[userRows[1].Email] = userRows[1].Password

=============================================================================
